---- MODULE Spec2Model ----
(***************************************************************************)
(* surfman connection layer.                                               *)
(*                                                                         *)
(*   Spec     the multi-backend dispatcher Connection<Def, Alt>            *)
(*            (platform/generic/multi/connection.rs) over two backends     *)
(*            that are only known through the Connection trait             *)
(*            (connection.rs): every backend call may return Ok or any     *)
(*            Error.                                                       *)
(*   SpecX11  the life of the Connections of the X11 backend               *)
(*            (platform/unix/x11/connection.rs) and of the surfaceless     *)
(*            backend (platform/unix/generic/connection.rs), over a model  *)
(*            of Xlib displays and EGL displays.                           *)
(*   SpecThreads  threads stepping through the X11 Connection::new() and   *)
(*            the lazy_static X_THREADS_INIT, with the constructors that   *)
(*            take the caller's display.                                   *)
(*   SpecLock the Connections of the X11 backend with the display lock:    *)
(*            lock_display() and DisplayGuard.                             *)
(*   SpecOps  the constructors and the queries of both backends and of     *)
(*            the dispatcher over them: new(), the handle and widget       *)
(*            constructors, gl_api() and the adapters.                     *)
(*   SpecQueries  the queries and factories of a Connection of either      *)
(*            backend, with new(), clone() - also through the dispatcher - *)
(*            and drop, and the Xlib and EGL calls each operation makes.   *)
(***************************************************************************)
EXTENDS Integers, Sequences, FiniteSets, TLC

\* ------------------------------------------------------------------ bounds
\* Number of dispatcher Connection values that may be alive at once.
MaxConns == 2

\* Number of X displays that are ever opened (by the library or the caller).
MaxDisplays == 1

\* Number of NativeConnectionWrapper allocations (Arc::new) in a run.
MaxWrappers == 2

\* Number of backend Connection values (Arc owners) alive at once.
MaxHandles == 2

\* Number of threads calling x11 Connection::new().
MaxThreads == 2

\* Number of new() calls the threads make in a run.
MaxCalls == 2

\* Number of XLockDisplay calls on one display in a run.
MaxLocks == 3

\* ------------------------------------------------------------- value types
\* crate::Error, the kinds the connection layer returns.
Error ==
    {"ConnectionFailed", "IncompatibleAdapter", "IncompatibleNativeDevice",
     "IncompatibleNativeWidget", "IncompatibleRawDisplayHandle", "Unimplemented"}

\* The two cases of every multi-backend enum.
Tag == {"Default", "Alternate"}

\* The type parameter (backend family) behind each case.
BackendOf(tag) == IF tag = "Default" THEN "Def" ELSE "Alt"

\* Adapter::hardware() / low_power() / software().
AdapterClass == {"hardware", "low_power", "software"}

\* crate::GLApi.
GLApi == {"GL", "GLES"}

\* rwh RawDisplayHandle / RawWindowHandle variants handed in by callers.
HandleKind == {"Xlib", "Xcb", "Wayland"}

\* A value of a backend's associated type (Def::Adapter, Alt::Device, ...).
BackendVal(kind, of, class) == [kind |-> kind, of |-> of, class |-> class]

NoBackendVal == BackendVal("None", "None", "None")

\* Result<T, Error> returned by a backend.
BOk(v) == [ok |-> TRUE, err |-> "None", val |-> v]

BErr(e) == [ok |-> FALSE, err |-> e, val |-> NoBackendVal]

\* A value of a multi-backend enum: the case and the backend value it holds.
MultiVal(kind, tag, inner) == [kind |-> kind, tag |-> tag, inner |-> inner]

NoVal == MultiVal("None", "None", NoBackendVal)

\* Result<T, Error> returned by the dispatcher.
Ok(v) == [ok |-> TRUE, err |-> "None", val |-> v]

Err(e) == [ok |-> FALSE, err |-> e, val |-> NoVal]

\* Result::map(Enum::Case): an Ok is wrapped in the case, an Err is unchanged.
MapTag(r, tag) ==
    IF r.ok THEN Ok(MultiVal(r.val.kind, tag, r.val)) ELSE Err(r.err)

\* One invocation of a backend operation made by the dispatcher.
Call(of, op, arg, r) == [backend |-> of, op |-> op, arg |-> arg, result |-> r]

\* What a dispatcher operation did: its return value and the backend calls,
\* in order.
Done(result, calls) == [result |-> result, calls |-> calls]

\* ------------------------------------------------- what a backend may return
\* The outcomes the trait allows for a fallible backend operation producing
\* a value of the given kind.
TraitResults(of, kind) ==
    {BOk(BackendVal(kind, of, "None"))} \cup {BErr(e) : e \in Error}

\* create_*_adapter: an adapter of some class, or an error.
TraitAdapterResults(of) ==
    {BOk(BackendVal("Adapter", of, c)) : c \in AdapterClass}
        \cup {BErr(e) : e \in Error}

\* gl_api() cannot fail.
TraitGLApi(of) == {BOk(BackendVal("GLApi", of, g)) : g \in GLApi}

\* native_connection() and create_native_widget_from_ptr() cannot fail.
TraitValue(of, kind) == {BOk(BackendVal(kind, of, "None"))}

\* ------------------------------------------------------------------- state
VARIABLES
    mconns,   \* slot -> the dispatcher Connection living there, or NoVal
    last,     \* the last dispatcher operation: name, receiver, argument, result
    trace     \* the backend calls that operation made, in order

mvars == <<mconns, last, trace>>

ConnIds == 1..MaxConns

Live(c) == mconns[c] # NoVal

FreeIds == {c \in ConnIds : ~Live(c)}

\* The slot a newly returned Connection is stored in.
Fresh == CHOOSE c \in FreeIds : \A d \in FreeIds : c <= d

Op(name, conn, self, arg, result) ==
    [op |-> name, conn |-> conn, self |-> self, arg |-> arg, result |-> result]

TypeOK ==
    /\ \A c \in ConnIds :
          mconns[c] = NoVal
              \/ (mconns[c].kind = "Connection" /\ mconns[c].tag \in Tag)
    /\ last.result.ok \in BOOLEAN
    /\ trace \in Seq([backend : {"Def", "Alt"}, op : STRING, arg : STRING,
                      result : [ok : BOOLEAN, err : STRING,
                                val : [kind : STRING, of : STRING, class : STRING]]])

MultiInit ==
    /\ mconns = [c \in ConnIds |-> NoVal]
    /\ last = Op("none", 0, "None", "None", Err("None"))
    /\ trace = <<>>

\* ------------------------------------------------- dispatcher operations
\* Mutants of Connection::new().
\* The Alternate backend is tried first.
Multi_new_AlternateFirst(defResult, altResult) ==
    IF altResult.ok
    THEN Done(Ok(MultiVal("Connection", "Alternate", altResult.val)),
              <<Call("Alt", "new", "None", altResult)>>)
    ELSE Done(MapTag(defResult, "Default"),
              <<Call("Alt", "new", "None", altResult),
                Call("Def", "new", "None", defResult)>>)

\* No fallback: the Default backend's failure is returned.
Multi_new_NoFallback(defResult, altResult) ==
    Done(MapTag(defResult, "Default"), <<Call("Def", "new", "None", defResult)>>)

\* Both fail: the first error is kept instead of the last.
Multi_new_FirstError(defResult, altResult) ==
    IF defResult.ok
    THEN Done(Ok(MultiVal("Connection", "Default", defResult.val)),
              <<Call("Def", "new", "None", defResult)>>)
    ELSE Done(IF altResult.ok THEN MapTag(altResult, "Alternate")
                              ELSE Err(defResult.err),
              <<Call("Def", "new", "None", defResult),
                Call("Alt", "new", "None", altResult)>>)

\* Connection::new(): Def::Connection::new() first, Alt::Connection::new()
\* only on Err(_).
Multi_new(defResult, altResult) ==
    IF defResult.ok
    THEN Done(Ok(MultiVal("Connection", "Default", defResult.val)),
              <<Call("Def", "new", "None", defResult)>>)
    ELSE Done(MapTag(altResult, "Alternate"),
              <<Call("Def", "new", "None", defResult),
                Call("Alt", "new", "None", altResult)>>)

\* Mutant of from_raw_display_handle(): the Default backend's failure is
\* returned, the Alternate backend is not tried.
Multi_from_raw_display_handle_NoFallback(raw_handle, defResult, altResult) ==
    Done(MapTag(defResult, "Default"),
         <<Call("Def", "from_raw_display_handle", raw_handle, defResult)>>)

\* from_raw_display_handle(raw_handle).
Multi_from_raw_display_handle(raw_handle, defResult, altResult) ==
    IF defResult.ok
    THEN Done(Ok(MultiVal("Connection", "Default", defResult.val)),
              <<Call("Def", "from_raw_display_handle", raw_handle, defResult)>>)
    ELSE Done(MapTag(altResult, "Alternate"),
              <<Call("Def", "from_raw_display_handle", raw_handle, defResult),
                Call("Alt", "from_raw_display_handle", raw_handle, altResult)>>)

\* from_display_handle(handle).
Multi_from_display_handle(handle, defResult, altResult) ==
    IF defResult.ok
    THEN Done(Ok(MultiVal("Connection", "Default", defResult.val)),
              <<Call("Def", "from_display_handle", handle, defResult)>>)
    ELSE Done(MapTag(altResult, "Alternate"),
              <<Call("Def", "from_display_handle", handle, defResult),
                Call("Alt", "from_display_handle", handle, altResult)>>)

\* Mutant of clone(): every clone is built as the Default case.
Multi_clone_AlwaysDefault(self) ==
    Done(Ok(MultiVal("Connection", "Default", self.inner)),
         <<Call("Def", "clone", "None", BOk(self.inner))>>)

\* Mutant of clone(): the clone is a new connection of the backend held.
Multi_clone_Reconnect(self) ==
    Done(Ok(MultiVal("Connection", self.tag, self.inner)),
         <<Call(BackendOf(self.tag), "new", "None", BOk(self.inner))>>)

\* impl Clone: the case is kept, the backend connection is cloned.
Multi_clone(self) ==
    IF self.tag = "Default"
    THEN Done(Ok(MultiVal("Connection", "Default", self.inner)),
              <<Call("Def", "clone", "None", BOk(self.inner))>>)
    ELSE Done(Ok(MultiVal("Connection", "Alternate", self.inner)),
              <<Call("Alt", "clone", "None", BOk(self.inner))>>)

\* A delegating method: match on self, call the same-named method of the
\* backend held, wrap the result in the same case. r is what that backend
\* call returns.
Multi_native_connection(self, r) ==
    IF self.tag = "Default"
    THEN Done(MapTag(r, "Default"), <<Call("Def", "native_connection", "None", r)>>)
    ELSE Done(MapTag(r, "Alternate"), <<Call("Alt", "native_connection", "None", r)>>)

\* gl_api(): the backend's GLApi, not wrapped.
Multi_gl_api(self, r) ==
    IF self.tag = "Default"
    THEN Done(Ok(MultiVal("GLApi", "None", r.val)),
              <<Call("Def", "gl_api", "None", r)>>)
    ELSE Done(Ok(MultiVal("GLApi", "None", r.val)),
              <<Call("Alt", "gl_api", "None", r)>>)

Multi_create_adapter(self, r) ==
    IF self.tag = "Default"
    THEN Done(MapTag(r, "Default"), <<Call("Def", "create_adapter", "None", r)>>)
    ELSE Done(MapTag(r, "Alternate"), <<Call("Alt", "create_adapter", "None", r)>>)

Multi_create_hardware_adapter(self, r) ==
    IF self.tag = "Default"
    THEN Done(MapTag(r, "Default"),
              <<Call("Def", "create_hardware_adapter", "None", r)>>)
    ELSE Done(MapTag(r, "Alternate"),
              <<Call("Alt", "create_hardware_adapter", "None", r)>>)

Multi_create_low_power_adapter(self, r) ==
    IF self.tag = "Default"
    THEN Done(MapTag(r, "Default"),
              <<Call("Def", "create_low_power_adapter", "None", r)>>)
    ELSE Done(MapTag(r, "Alternate"),
              <<Call("Alt", "create_low_power_adapter", "None", r)>>)

\* Mutant of create_software_adapter(): both arms call the backend's
\* create_hardware_adapter().
Multi_create_software_adapter_WrongMethod(self, r) ==
    IF self.tag = "Default"
    THEN Done(MapTag(r, "Default"),
              <<Call("Def", "create_hardware_adapter", "None", r)>>)
    ELSE Done(MapTag(r, "Alternate"),
              <<Call("Alt", "create_hardware_adapter", "None", r)>>)

Multi_create_software_adapter(self, r) ==
    IF self.tag = "Default"
    THEN Done(MapTag(r, "Default"),
              <<Call("Def", "create_software_adapter", "None", r)>>)
    ELSE Done(MapTag(r, "Alternate"),
              <<Call("Alt", "create_software_adapter", "None", r)>>)

\* Mutant of create_device(): the adapter's case is not looked at.
Multi_create_device_NoTagCheck(self, adapter, r) ==
    IF self.tag = "Default"
    THEN Done(MapTag(r, "Default"),
              <<Call("Def", "create_device", adapter.inner.class, r)>>)
    ELSE Done(MapTag(r, "Alternate"),
              <<Call("Alt", "create_device", adapter.inner.class, r)>>)

\* create_device(adapter): match (self, adapter); any other pair is
\* Err(IncompatibleAdapter) without a backend call.
Multi_create_device(self, adapter, r) ==
    IF self.tag = "Default" /\ adapter.tag = "Default"
    THEN Done(MapTag(r, "Default"),
              <<Call("Def", "create_device", adapter.inner.class, r)>>)
    ELSE IF self.tag = "Alternate" /\ adapter.tag = "Alternate"
    THEN Done(MapTag(r, "Alternate"),
              <<Call("Alt", "create_device", adapter.inner.class, r)>>)
    ELSE Done(Err("IncompatibleAdapter"), <<>>)

\* Mutant of create_device_from_native_device(): an Alternate connection
\* accepts every native device.
Multi_create_device_from_native_device_OneWay(self, native_device, r) ==
    IF self.tag = "Default"
    THEN IF native_device.tag = "Default"
         THEN Done(MapTag(r, "Default"),
                   <<Call("Def", "create_device_from_native_device", "None", r)>>)
         ELSE Done(Err("IncompatibleNativeDevice"), <<>>)
    ELSE Done(MapTag(r, "Alternate"),
              <<Call("Alt", "create_device_from_native_device", "None", r)>>)

\* create_device_from_native_device(native_device): match self, then match
\* native_device; the other case is Err(IncompatibleNativeDevice).
Multi_create_device_from_native_device(self, native_device, r) ==
    IF self.tag = "Default"
    THEN IF native_device.tag = "Default"
         THEN Done(MapTag(r, "Default"),
                   <<Call("Def", "create_device_from_native_device", "None", r)>>)
         ELSE Done(Err("IncompatibleNativeDevice"), <<>>)
    ELSE IF native_device.tag = "Alternate"
         THEN Done(MapTag(r, "Alternate"),
                   <<Call("Alt", "create_device_from_native_device", "None", r)>>)
         ELSE Done(Err("IncompatibleNativeDevice"), <<>>)

\* Mutant of create_native_widget_from_ptr(): both arms build the Default case.
Multi_create_native_widget_from_ptr_SameArm(self, r) ==
    IF self.tag = "Default"
    THEN Done(MapTag(r, "Default"),
              <<Call("Def", "create_native_widget_from_ptr", "None", r)>>)
    ELSE Done(MapTag(r, "Default"),
              <<Call("Alt", "create_native_widget_from_ptr", "None", r)>>)

Multi_create_native_widget_from_ptr(self, r) ==
    IF self.tag = "Default"
    THEN Done(MapTag(r, "Default"),
              <<Call("Def", "create_native_widget_from_ptr", "None", r)>>)
    ELSE Done(MapTag(r, "Alternate"),
              <<Call("Alt", "create_native_widget_from_ptr", "None", r)>>)

Multi_create_native_widget_from_raw_window_handle(self, raw_handle, r) ==
    IF self.tag = "Default"
    THEN Done(MapTag(r, "Default"),
              <<Call("Def", "create_native_widget_from_raw_window_handle",
                     raw_handle, r)>>)
    ELSE Done(MapTag(r, "Alternate"),
              <<Call("Alt", "create_native_widget_from_raw_window_handle",
                     raw_handle, r)>>)

Multi_create_native_widget_from_window_handle(self, handle, r) ==
    IF self.tag = "Default"
    THEN Done(MapTag(r, "Default"),
              <<Call("Def", "create_native_widget_from_window_handle", handle, r)>>)
    ELSE Done(MapTag(r, "Alternate"),
              <<Call("Alt", "create_native_widget_from_window_handle", handle, r)>>)

\* ----------------------------------------------------------- caller inputs
\* The Adapter<Def, Alt> values a caller can hold.
Adapters ==
    {MultiVal("Adapter", t, BackendVal("Adapter", BackendOf(t), c)) :
        t \in Tag, c \in AdapterClass}

\* The NativeDevice<Def, Alt> values a caller can hold.
NativeDevices ==
    {MultiVal("NativeDevice", t, BackendVal("NativeDevice", BackendOf(t), "None")) :
        t \in Tag}

\* ======================================================================
\* The X11 and surfaceless backends
\* ======================================================================
\* ptr::null_mut(): no X display.
NULL == 0

\* egl::NO_DISPLAY.
NO_DISPLAY == 0

DisplayIds == 1..MaxDisplays

WrapperIds == 1..MaxWrappers

\* The EGLDisplay eglGetPlatformDisplay(EGL_PLATFORM_X11_KHR, display)
\* stands for: one per X display, one for the null (default) display.
EglOfX11(display) == IF display = NULL THEN MaxDisplays + 1 ELSE display

\* The EGLDisplay of (EGL_PLATFORM_SURFACELESS_MESA, DEFAULT_DISPLAY).
EglSurfaceless == MaxDisplays + 2

\* eglGetPlatformDisplay returns the platform's display or NO_DISPLAY.
GetPlatformDisplayX11(display) == {NO_DISPLAY, EglOfX11(display)}

GetPlatformDisplaySurfaceless == {NO_DISPLAY, EglSurfaceless}

\* eglInitialize returns TRUE or FALSE; on NO_DISPLAY it returns FALSE.
Initialize(egl_display) ==
    IF egl_display = NO_DISPLAY THEN {FALSE} ELSE {TRUE, FALSE}

VARIABLES
    x_threads_init,   \* number of times XInitThreads() has run
    displays,         \* X display -> state, who opened it, XCloseDisplay calls
                      \*   by the library, the wrapper built by new() for it
    egl_initialized,  \* the EGL displays eglInitialize succeeded on
    wrappers,         \* allocation -> NativeConnectionWrapper and the number
                      \*   of Connection values (Arc owners) sharing it
    made_by,          \* allocation -> the constructor that made the wrapper
    xlast,            \* the last backend operation and its outcome
    xio,              \* the handle it was given and the value it returned
    xcalls,           \* the Xlib and EGL calls it made, in order (after the
                      \* backend method a dispatcher clone() called)
    once_running,     \* a thread is inside the X_THREADS_INIT initializer
    tpc,              \* thread -> where it is in x11 Connection::new()
    ncalls,           \* number of new() calls threads have made
    guards,           \* allocation -> the DisplayGuards borrowed from it
    locks,            \* X display -> XLockDisplay calls
    unlocks           \* X display -> XUnlockDisplay calls

\* The state of threads inside Connection::new().
tvars == <<once_running, tpc, ncalls>>

\* The state of the display lock.
lvars == <<guards, locks, unlocks>>

xvars ==
    <<x_threads_init, displays, egl_initialized, wrappers, made_by, xlast, xio,
      xcalls, tvars, lvars>>

NoDisplay == [state |-> "none", opened_by |-> "none", closes |-> 0, owner |-> 0]

NoWrapper ==
    [backend |-> "none", egl_display |-> NO_DISPLAY, x11_display |-> NULL,
     x11_display_is_owned |-> FALSE, strong |-> 0]

\* The part of the state the backend operations read and write.
NativeSt ==
    [x_threads_init |-> x_threads_init, displays |-> displays,
     egl_initialized |-> egl_initialized, wrappers |-> wrappers,
     calls |-> <<>>]

\* The operation called the Xlib or EGL function name.
Called(st, name) == [st EXCEPT !.calls = Append(@, name)]

\* No handle argument.
NoArg == [kind |-> "None", display |-> NULL]

\* No value returned.
NoRet == BErr("None")

IO(arg, ret) == [arg |-> arg, ret |-> ret]

ThreadIds == 1..MaxThreads

\* A thread outside new(), holding no display.
Idle == [pc |-> "idle", x11_display |-> NULL]

\* No DisplayGuard borrowed.
NoGuards == [held |-> 0, display |-> NULL]

\* What a backend operation did: the state after it, "ok" / "err" / "panic",
\* the error, and the allocation of the Connection returned.
Outcome(st, outcome, err, w) == [st |-> st, outcome |-> outcome, err |-> err, w |-> w]

FreeWrappers(st) == {w \in WrapperIds : st.wrappers[w] = NoWrapper}

FreshWrapper(st) ==
    CHOOSE w \in FreeWrappers(st) : \A v \in FreeWrappers(st) : w <= v

FreeDisplays == {d \in DisplayIds : displays[d] = NoDisplay}

FreshDisplay == CHOOSE d \in FreeDisplays : \A e \in FreeDisplays : d <= e

\* *X_THREADS_INIT: the lazy_static runs XInitThreads() on first use only.
X_THREADS_INIT(st) ==
    IF st.x_threads_init = 0
    THEN Called([st EXCEPT !.x_threads_init = 1], "XInitThreads")
    ELSE st

\* XOpenDisplay gave a new display.
XOpenDisplay(st, display, by) ==
    Called([st EXCEPT !.displays[display] =
               [state |-> "open", opened_by |-> by, closes |-> 0, owner |-> 0]],
           "XOpenDisplay")

\* XCloseDisplay(display).
XCloseDisplay(st, display) ==
    Called(IF display = NULL THEN st
           ELSE [st EXCEPT !.displays[display].state = "closed",
                           !.displays[display].closes = @ + 1],
           "XCloseDisplay")

\* Arc::new(NativeConnectionWrapper { .. }).
Arc_new(st, wrapper) ==
    [st EXCEPT !.wrappers[FreshWrapper(st)] = [wrapper EXCEPT !.strong = 1]]

\* create_egl_display(display): GetPlatformDisplay returned egl_display and
\* Initialize returned ok; assert_ne!(ok, egl::FALSE) panics.
create_egl_display(st, egl_display, ok) ==
    LET s1 == Called(st, IF egl_display = NO_DISPLAY
                         THEN "GetPlatformDisplay -> NO_DISPLAY"
                         ELSE "GetPlatformDisplay")
    IN IF ok = FALSE
       THEN Outcome(Called(s1, "Initialize -> FALSE"), "panic", "None", 0)
       ELSE Outcome(Called([s1 EXCEPT !.egl_initialized = @ \cup {egl_display}],
                           "Initialize"),
                    "ok", "None", 0)

\* Mutant of the Once behind lazy_static: the initializer is taken to have
\* run already.
Once_state_NeverRuns(count, running) == "complete"

\* Mutant of the Once behind lazy_static: a thread does not see that
\* another one is running the initializer.
Once_state_Unsynchronized(count, running) ==
    IF count > 0 THEN "complete" ELSE "incomplete"

\* The Once behind the lazy_static X_THREADS_INIT, as a thread reading it
\* finds it: XInitThreads() has run count times, and running says a thread
\* is inside the initializer.
Once_state(count, running) ==
    IF count > 0 THEN "complete"
    ELSE IF running THEN "running" ELSE "incomplete"

\* x11 Connection::new() from the display XOpenDisplay returned:
\* create_egl_display, then the owning wrapper.
X11_new_opened(st, x11_display, egl_display, ok) ==
    LET e == create_egl_display(st, egl_display, ok) IN
    IF e.outcome = "panic"
    THEN e
    ELSE LET w  == FreshWrapper(e.st)
             s3 == Arc_new(e.st,
                      [backend |-> "x11", egl_display |-> egl_display,
                       x11_display |-> x11_display,
                       x11_display_is_owned |-> TRUE, strong |-> 1])
         IN Outcome([s3 EXCEPT !.displays[x11_display].owner = w],
                    "ok", "None", w)

\* Mutant of new(): the EGL display is created before the display is looked
\* at.
X11_new_EglFirst(st, x11_display, egl_display, ok) ==
    LET s1 == X_THREADS_INIT(st) IN
    IF x11_display = NULL
    THEN Outcome(create_egl_display(Called(s1, "XOpenDisplay -> NULL"),
                                    egl_display, ok).st,
                 "err", "ConnectionFailed", 0)
    ELSE X11_new_opened(XOpenDisplay(s1, x11_display, "new"),
                        x11_display, egl_display, ok)

\* x11 Connection::new(): XOpenDisplay returned x11_display.
X11_new(st, x11_display, egl_display, ok) ==
    LET s1 == X_THREADS_INIT(st) IN
    IF x11_display = NULL
    THEN Outcome(Called(s1, "XOpenDisplay -> NULL"), "err", "ConnectionFailed", 0)
    ELSE X11_new_opened(XOpenDisplay(s1, x11_display, "new"),
                        x11_display, egl_display, ok)

\* Mutant of from_native_connection(): the new wrapper is flagged as owning
\* the display.
X11_from_native_connection_Owned(st, native_connection) ==
    Outcome(Arc_new(st,
                [backend |-> "x11", egl_display |-> native_connection.egl_display,
                 x11_display |-> native_connection.x11_display,
                 x11_display_is_owned |-> TRUE, strong |-> 1]),
            "ok", "None", FreshWrapper(st))

\* x11 Connection::from_native_connection(native_connection).
X11_from_native_connection(st, native_connection) ==
    Outcome(Arc_new(st,
                [backend |-> "x11", egl_display |-> native_connection.egl_display,
                 x11_display |-> native_connection.x11_display,
                 x11_display_is_owned |-> FALSE, strong |-> 1]),
            "ok", "None", FreshWrapper(st))

\* x11 Connection::from_x11_display(x11_display, is_owned).
X11_from_x11_display(st, x11_display, is_owned, egl_display, ok) ==
    LET e == create_egl_display(st, egl_display, ok) IN
    IF e.outcome = "panic"
    THEN e
    ELSE Outcome(Arc_new(e.st,
                    [backend |-> "x11", egl_display |-> egl_display,
                     x11_display |-> x11_display,
                     x11_display_is_owned |-> is_owned, strong |-> 1]),
                 "ok", "None", FreshWrapper(e.st))

\* Mutant of from_raw_display_handle(): the wrapper is flagged as owning the
\* caller's display.
X11_from_raw_display_handle_Owned(st, raw_handle, egl_display, ok) ==
    IF raw_handle.kind = "Xlib"
    THEN X11_from_x11_display(st, raw_handle.display, TRUE, egl_display, ok)
    ELSE IF raw_handle.kind = "Xcb"
    THEN Outcome(st, "err", "Unimplemented", 0)
    ELSE Outcome(st, "err", "IncompatibleRawDisplayHandle", 0)

\* x11 Connection::from_raw_display_handle(raw_handle) (rwh 0.5: the Xlib
\* handle's display is a raw pointer, possibly null).
X11_from_raw_display_handle(st, raw_handle, egl_display, ok) ==
    IF raw_handle.kind = "Xlib"
    THEN X11_from_x11_display(st, raw_handle.display, FALSE, egl_display, ok)
    ELSE IF raw_handle.kind = "Xcb"
    THEN Outcome(st, "err", "Unimplemented", 0)
    ELSE Outcome(st, "err", "IncompatibleRawDisplayHandle", 0)

\* x11 Connection::from_display_handle(handle) (rwh 0.6: only an Xlib handle
\* with display: Some(..) matches the first arm).
X11_from_display_handle(st, handle, egl_display, ok) ==
    IF handle.kind = "Xlib" /\ handle.display # NULL
    THEN X11_from_x11_display(st, handle.display, FALSE, egl_display, ok)
    ELSE IF handle.kind = "Xcb"
    THEN Outcome(st, "err", "Unimplemented", 0)
    ELSE Outcome(st, "err", "IncompatibleRawDisplayHandle", 0)

\* Mutant of the wrapper's drop: the ownership flag is not looked at.
NativeConnectionWrapper_drop_AlwaysClose(st, w) ==
    [XCloseDisplay(st, st.wrappers[w].x11_display)
        EXCEPT !.wrappers[w].x11_display = NULL]

\* impl Drop for NativeConnectionWrapper.
NativeConnectionWrapper_drop(st, w) ==
    LET s1 == IF st.wrappers[w].x11_display_is_owned
              THEN XCloseDisplay(st, st.wrappers[w].x11_display)
              ELSE st
    IN [s1 EXCEPT !.wrappers[w].x11_display = NULL]

\* #[derive(Clone)] on Connection: Arc::clone.
Arc_clone(st, w) == [st EXCEPT !.wrappers[w].strong = @ + 1]

\* What a query of the Connection sharing a wrapper gave: the state after
\* it and the value returned.
Gave(st, value) == [st |-> st, value |-> value]

\* Mutant of the x11 native_connection(): the EGL display is left out.
X11_native_connection_NoEgl(st, w) ==
    Gave(st, [egl_display |-> NO_DISPLAY,
              x11_display |-> st.wrappers[w].x11_display])

\* Mutant of the x11 native_connection(): the Arc is cloned into the value
\* returned, as the surfaceless backend does.
X11_native_connection_ArcClone(st, w) ==
    Gave(Arc_clone(st, w),
         [egl_display |-> st.wrappers[w].egl_display,
          x11_display |-> st.wrappers[w].x11_display])

\* x11 Connection::native_connection(): the two raw pointers are copied.
X11_native_connection(st, w) ==
    Gave(st, [egl_display |-> st.wrappers[w].egl_display,
              x11_display |-> st.wrappers[w].x11_display])

\* surfaceless Connection::native_connection(): NativeConnection holds a
\* clone of the Arc.
Generic_native_connection(st, w) ==
    Gave(Arc_clone(st, w), [egl_display |-> st.wrappers[w].egl_display,
                            x11_display |-> NULL])

\* Mutant of dropping a Connection: the wrapper's drop runs with every
\* Connection, not with the last one.
Arc_drop_EveryOwner(st, w) ==
    LET s1 == [st EXCEPT !.wrappers[w].strong = @ - 1] IN
    IF s1.wrappers[w].backend = "x11"
    THEN IF s1.wrappers[w].strong = 0
         THEN NativeConnectionWrapper_drop(s1, w)
         ELSE IF s1.wrappers[w].x11_display_is_owned
              THEN XCloseDisplay(s1, s1.wrappers[w].x11_display)
              ELSE s1
    ELSE s1

\* Dropping a Connection drops its Arc; the last owner drops the wrapper
\* (the surfaceless wrapper has no Drop impl).
Arc_drop(st, w) ==
    LET s1 == [st EXCEPT !.wrappers[w].strong = @ - 1] IN
    IF s1.wrappers[w].strong = 0 /\ s1.wrappers[w].backend = "x11"
    THEN NativeConnectionWrapper_drop(s1, w)
    ELSE s1

\* Mutant of the surfaceless new(): the result of Initialize is not checked.
Generic_new_NoInitializeCheck(st, egl_display, ok) ==
    IF egl_display = NO_DISPLAY
    THEN Outcome(st, "err", "ConnectionFailed", 0)
    ELSE Outcome(Arc_new([st EXCEPT !.egl_initialized =
                                       IF ok THEN @ \cup {egl_display} ELSE @],
                    [backend |-> "generic", egl_display |-> egl_display,
                     x11_display |-> NULL, x11_display_is_owned |-> FALSE,
                     strong |-> 1]),
                 "ok", "None", FreshWrapper(st))

\* surfaceless Connection::new().
Generic_new(st, egl_display, ok) ==
    IF egl_display = NO_DISPLAY
    THEN Outcome(Called(st, "GetPlatformDisplay -> NO_DISPLAY"),
                 "err", "ConnectionFailed", 0)
    ELSE LET s1 == Called(st, "GetPlatformDisplay") IN
    IF ok = FALSE
    THEN Outcome(Called(s1, "Initialize -> FALSE"), "err", "ConnectionFailed", 0)
    ELSE Outcome(Arc_new(Called([s1 EXCEPT !.egl_initialized = @ \cup {egl_display}],
                                "Initialize"),
                    [backend |-> "generic", egl_display |-> egl_display,
                     x11_display |-> NULL, x11_display_is_owned |-> FALSE,
                     strong |-> 1]),
                 "ok", "None", FreshWrapper(st))

\* surfaceless Connection::from_raw_display_handle(_).
Generic_from_raw_display_handle(st, raw_handle) ==
    Outcome(st, "err", "IncompatibleNativeWidget", 0)

\* surfaceless Connection::from_display_handle(_).
Generic_from_display_handle(st, handle) ==
    Outcome(st, "err", "IncompatibleNativeWidget", 0)

\* Mutant of the x11 widget constructor: an Xcb window is taken as well.
X11_create_native_widget_from_raw_window_handle_AnyX(wrapper, raw_handle) ==
    IF raw_handle.kind \in {"Xlib", "Xcb"}
    THEN BOk(BackendVal("NativeWidget", "x11", raw_handle.window))
    ELSE BErr("IncompatibleNativeWidget")

\* x11 create_native_widget_from_raw_window_handle: Xlib(handle) gives
\* NativeWidget { window: handle.window }.
X11_create_native_widget_from_raw_window_handle(wrapper, raw_handle) ==
    IF raw_handle.kind = "Xlib"
    THEN BOk(BackendVal("NativeWidget", "x11", raw_handle.window))
    ELSE BErr("IncompatibleNativeWidget")

\* x11 create_native_widget_from_window_handle: handle.as_raw() matched
\* the same way.
X11_create_native_widget_from_window_handle(wrapper, handle) ==
    IF handle.kind = "Xlib"
    THEN BOk(BackendVal("NativeWidget", "x11", handle.window))
    ELSE BErr("IncompatibleNativeWidget")

\* create_native_widget_from_ptr(raw, _size): the x11 widget holds raw as
\* its window, the surfaceless widget holds nothing.
Native_create_native_widget_from_ptr(wrapper, raw) ==
    IF wrapper.backend = "x11"
    THEN BOk(BackendVal("NativeWidget", "x11", raw))
    ELSE BOk(BackendVal("NativeWidget", "generic", "None"))

\* surfaceless create_native_widget_from_raw_window_handle(_, _).
Generic_create_native_widget_from_raw_window_handle(wrapper, raw_handle) ==
    BErr("IncompatibleNativeWidget")

\* surfaceless create_native_widget_from_window_handle(_, _).
Generic_create_native_widget_from_window_handle(wrapper, handle) ==
    BErr("IncompatibleNativeWidget")

\* The part of the state lock_display() and its guards read and write.
LockSt == [guards |-> guards, locks |-> locks, unlocks |-> unlocks]

\* NativeConnectionWrapper::lock_display(): XLockDisplay(self.x11_display),
\* then the DisplayGuard holding that display.
lock_display(ls, w, display) ==
    [ls EXCEPT !.locks[display] = @ + 1,
               !.guards[w] = [held |-> @.held + 1, display |-> display]]

\* Mutant of the guard's drop: the guard goes away without unlocking.
DisplayGuard_drop_NoUnlock(ls, w) ==
    [ls EXCEPT !.guards[w] = IF @.held = 1 THEN NoGuards
                             ELSE [@ EXCEPT !.held = @ - 1]]

\* impl Drop for DisplayGuard: XUnlockDisplay(self.display).
DisplayGuard_drop(ls, w) ==
    [ls EXCEPT !.unlocks[ls.guards[w].display] = @ + 1,
               !.guards[w] = IF @.held = 1 THEN NoGuards
                             ELSE [@ EXCEPT !.held = @ - 1]]

\* gl_api() of both backends.
Native_gl_api(wrapper) == "GL"

\* create_hardware_adapter() of both backends.
Native_create_hardware_adapter(wrapper) ==
    BOk(BackendVal("Adapter", wrapper.backend, "hardware"))

\* Mutant of create_adapter(): the low-power adapter is preferred.
Native_create_adapter_LowPower(wrapper) ==
    BOk(BackendVal("Adapter", wrapper.backend, "low_power"))

\* create_adapter() of both backends.
Native_create_adapter(wrapper) == Native_create_hardware_adapter(wrapper)

Native_create_low_power_adapter(wrapper) ==
    BOk(BackendVal("Adapter", wrapper.backend, "low_power"))

Native_create_software_adapter(wrapper) ==
    BOk(BackendVal("Adapter", wrapper.backend, "software"))


\* ------------------------------------------------------------ whole state
vars == <<mvars, xvars>>

NativeInit ==
    /\ x_threads_init = 0
    /\ displays = [d \in DisplayIds |-> NoDisplay]
    /\ egl_initialized = {}
    /\ wrappers = [w \in WrapperIds |-> NoWrapper]
    /\ made_by = [w \in WrapperIds |-> "none"]
    /\ xlast = [op |-> "none", backend |-> "none", outcome |-> "none",
                err |-> "None", w |-> 0]
    /\ xio = IO(NoArg, NoRet)
    /\ xcalls = <<>>
    /\ once_running = FALSE
    /\ tpc = [t \in ThreadIds |-> Idle]
    /\ ncalls = 0
    /\ guards = [w \in WrapperIds |-> NoGuards]
    /\ locks = [d \in DisplayIds |-> 0]
    /\ unlocks = [d \in DisplayIds |-> 0]

Init == MultiInit /\ NativeInit

\* ------------------------------------------------------ dispatcher actions
\* A constructor returned d: the Connection, if any, is kept by the caller.
Construct(name, arg, d) ==
    /\ last' = Op(name, IF d.result.ok THEN Fresh ELSE 0, "None", arg, d.result)
    /\ trace' = d.calls
    /\ mconns' = IF d.result.ok
                 THEN [mconns EXCEPT ![Fresh] = d.result.val]
                 ELSE mconns
    /\ UNCHANGED xvars

\* A method of the Connection in slot c returned d.
Method(name, c, arg, d) ==
    /\ last' = Op(name, c, mconns[c].tag, arg, d.result)
    /\ trace' = d.calls
    /\ UNCHANGED mconns
    /\ UNCHANGED xvars

New ==
    /\ FreeIds # {}
    /\ \E dr \in TraitResults("Def", "Connection"),
          ar \in TraitResults("Alt", "Connection") :
          Construct("new", "None", Multi_new(dr, ar))

FromRawDisplayHandle ==
    /\ FreeIds # {}
    /\ \E h \in HandleKind,
          dr \in TraitResults("Def", "Connection"),
          ar \in TraitResults("Alt", "Connection") :
          Construct("from_raw_display_handle", h,
                    Multi_from_raw_display_handle(h, dr, ar))

FromDisplayHandle ==
    /\ FreeIds # {}
    /\ \E h \in HandleKind,
          dr \in TraitResults("Def", "Connection"),
          ar \in TraitResults("Alt", "Connection") :
          Construct("from_display_handle", h, Multi_from_display_handle(h, dr, ar))

Clone ==
    /\ FreeIds # {}
    /\ \E c \in ConnIds :
          /\ Live(c)
          /\ LET d == Multi_clone(mconns[c]) IN
                /\ last' = Op("clone", Fresh, mconns[c].tag, "None", d.result)
                /\ trace' = d.calls
                /\ mconns' = [mconns EXCEPT ![Fresh] = d.result.val]
                /\ UNCHANGED xvars

\* The Connection in slot c goes out of scope.
Drop ==
    \E c \in ConnIds :
        /\ Live(c)
        /\ last' = Op("drop", c, mconns[c].tag, "None", Ok(NoVal))
        /\ trace' = <<Call(BackendOf(mconns[c].tag), "drop", "None", BOk(NoBackendVal))>>
        /\ mconns' = [mconns EXCEPT ![c] = NoVal]
        /\ UNCHANGED xvars

NativeConnectionOf ==
    \E c \in ConnIds :
        /\ Live(c)
        /\ \E r \in TraitValue(BackendOf(mconns[c].tag), "NativeConnection") :
              Method("native_connection", c, "None",
                     Multi_native_connection(mconns[c], r))

GlApiOf ==
    \E c \in ConnIds :
        /\ Live(c)
        /\ \E r \in TraitGLApi(BackendOf(mconns[c].tag)) :
              Method("gl_api", c, "None", Multi_gl_api(mconns[c], r))

CreateAdapter ==
    \E c \in ConnIds :
        /\ Live(c)
        /\ \E r \in TraitAdapterResults(BackendOf(mconns[c].tag)) :
              Method("create_adapter", c, "None", Multi_create_adapter(mconns[c], r))

CreateHardwareAdapter ==
    \E c \in ConnIds :
        /\ Live(c)
        /\ \E r \in TraitAdapterResults(BackendOf(mconns[c].tag)) :
              Method("create_hardware_adapter", c, "None",
                     Multi_create_hardware_adapter(mconns[c], r))

CreateLowPowerAdapter ==
    \E c \in ConnIds :
        /\ Live(c)
        /\ \E r \in TraitAdapterResults(BackendOf(mconns[c].tag)) :
              Method("create_low_power_adapter", c, "None",
                     Multi_create_low_power_adapter(mconns[c], r))

CreateSoftwareAdapter ==
    \E c \in ConnIds :
        /\ Live(c)
        /\ \E r \in TraitAdapterResults(BackendOf(mconns[c].tag)) :
              Method("create_software_adapter", c, "None",
                     Multi_create_software_adapter(mconns[c], r))

CreateDevice ==
    \E c \in ConnIds, adapter \in Adapters :
        /\ Live(c)
        /\ \E r \in TraitResults(BackendOf(mconns[c].tag), "Device") :
              Method("create_device", c, adapter.tag,
                     Multi_create_device(mconns[c], adapter, r))

CreateDeviceFromNativeDevice ==
    \E c \in ConnIds, native_device \in NativeDevices :
        /\ Live(c)
        /\ \E r \in TraitResults(BackendOf(mconns[c].tag), "Device") :
              Method("create_device_from_native_device", c, native_device.tag,
                     Multi_create_device_from_native_device(mconns[c], native_device, r))

CreateNativeWidgetFromPtr ==
    \E c \in ConnIds :
        /\ Live(c)
        /\ \E r \in TraitValue(BackendOf(mconns[c].tag), "NativeWidget") :
              Method("create_native_widget_from_ptr", c, "None",
                     Multi_create_native_widget_from_ptr(mconns[c], r))

CreateNativeWidgetFromRawWindowHandle ==
    \E c \in ConnIds, h \in HandleKind :
        /\ Live(c)
        /\ \E r \in TraitResults(BackendOf(mconns[c].tag), "NativeWidget") :
              Method("create_native_widget_from_raw_window_handle", c, h,
                     Multi_create_native_widget_from_raw_window_handle(mconns[c], h, r))

CreateNativeWidgetFromWindowHandle ==
    \E c \in ConnIds, h \in HandleKind :
        /\ Live(c)
        /\ \E r \in TraitResults(BackendOf(mconns[c].tag), "NativeWidget") :
              Method("create_native_widget_from_window_handle", c, h,
                     Multi_create_native_widget_from_window_handle(mconns[c], h, r))

Next ==
    \/ New
    \/ FromRawDisplayHandle
    \/ FromDisplayHandle
    \/ Clone
    \/ Drop
    \/ NativeConnectionOf
    \/ GlApiOf
    \/ CreateAdapter
    \/ CreateHardwareAdapter
    \/ CreateLowPowerAdapter
    \/ CreateSoftwareAdapter
    \/ CreateDevice
    \/ CreateDeviceFromNativeDevice
    \/ CreateNativeWidgetFromPtr
    \/ CreateNativeWidgetFromRawWindowHandle
    \/ CreateNativeWidgetFromWindowHandle

Spec == Init /\ [][Next]_vars

\* ------------------------------------------------------ dispatcher: claims
\* The backend calls of the last operation made to the given backend.
CallsTo(of) == {i \in 1..Len(trace) : trace[i].backend = of}

\* C1: in Connection::new() the first backend call is Def::Connection::new();
\* when it returns Ok the result is the Default case holding that connection
\* and Alt::Connection::new() is not called.
C1_DefaultFirst ==
    last.op = "new" =>
        /\ Len(trace) >= 1
        /\ trace[1].backend = "Def"
        /\ trace[1].op = "new"
        /\ trace[1].result.ok =>
              /\ last.result = Ok(MultiVal("Connection", "Default", trace[1].result.val))
              /\ CallsTo("Alt") = {}
              /\ Live(last.conn)
              /\ mconns[last.conn].tag = "Default"

C1_Witness ==
    /\ last.op = "new"
    /\ trace[1].result.ok
    /\ mconns[last.conn].tag = "Default"

\* C2: in Connection::new(), when Def::Connection::new() returns an error the
\* Alternate backend's new() is called exactly once, the Default's exactly
\* once, and when the Alternate's returns Ok the result is the Alternate case
\* holding that connection.
C2_FallbackToAlternate ==
    (last.op = "new" /\ ~trace[1].result.ok) =>
        /\ Len(trace) = 2
        /\ CallsTo("Def") = {1}
        /\ CallsTo("Alt") = {2}
        /\ trace[2].op = "new"
        /\ trace[1].result.err \in Error
        /\ trace[2].result.ok =>
              /\ last.result = Ok(MultiVal("Connection", "Alternate", trace[2].result.val))
              /\ mconns[last.conn].tag = "Alternate"

C2_Witness ==
    /\ last.op = "new"
    /\ Len(trace) = 2
    /\ trace[1].result = BErr("Unimplemented")
    /\ trace[2].result.ok
    /\ mconns[last.conn].tag = "Alternate"

\* C3: when both backends' new() fail, Connection::new() returns the error
\* of Alt::Connection::new().
C3_AlternateErrorWins ==
    (last.op = "new" /\ Len(trace) = 2 /\ ~trace[1].result.ok /\ ~trace[2].result.ok) =>
        /\ last.result = Err(trace[2].result.err)
        /\ last.conn = 0

C3_Witness ==
    /\ last.op = "new"
    /\ Len(trace) = 2
    /\ trace[1].result = BErr("ConnectionFailed")
    /\ trace[2].result = BErr("Unimplemented")
    /\ last.result = Err("Unimplemented")

\* C4: create_device with an Adapter whose case differs from the
\* Connection's returns IncompatibleAdapter and calls no backend.
C4_IncompatibleAdapter ==
    (last.op = "create_device" /\ last.arg # last.self) =>
        /\ last.result = Err("IncompatibleAdapter")
        /\ trace = <<>>

C4_Witness ==
    /\ last.op = "create_device"
    /\ last.self = "Alternate"
    /\ last.arg = "Default"
    /\ last.result = Err("IncompatibleAdapter")

\* C5: create_device_from_native_device with a NativeDevice whose case
\* differs from the Connection's returns IncompatibleNativeDevice and calls
\* no backend.
C5_IncompatibleNativeDevice ==
    (last.op = "create_device_from_native_device" /\ last.arg # last.self) =>
        /\ last.result = Err("IncompatibleNativeDevice")
        /\ trace = <<>>

C5_Witness ==
    /\ last.op = "create_device_from_native_device"
    /\ last.self = "Alternate"
    /\ last.arg = "Default"
    /\ last.result = Err("IncompatibleNativeDevice")

\* The methods of a Connection that return a multi-backend enum value.
Producers ==
    {"native_connection", "create_adapter", "create_hardware_adapter",
     "create_low_power_adapter", "create_software_adapter", "create_device",
     "create_device_from_native_device", "create_native_widget_from_ptr",
     "create_native_widget_from_raw_window_handle",
     "create_native_widget_from_window_handle"}

\* C6: an Adapter, Device, NativeWidget or NativeConnection returned by a
\* method of a Connection has the Connection's case and holds a value of
\* that case's backend.
C6_SameTag ==
    (last.op \in Producers /\ last.result.ok) =>
        /\ last.result.val.tag = last.self
        /\ last.result.val.tag = mconns[last.conn].tag
        /\ last.result.val.inner.of = BackendOf(last.self)

C6_Witness ==
    /\ last.op = "create_native_widget_from_ptr"
    /\ last.result.ok
    /\ last.result.val.tag = "Alternate"
    /\ mconns[last.conn].tag = "Alternate"

\* C7: a step never changes the case of a Connection that exists before and
\* after it, and clone() returns a Connection of the case of its receiver.
C7_VariantFixed ==
    [][/\ \A c \in ConnIds :
             (Live(c) /\ mconns'[c] # NoVal) => mconns'[c].tag = mconns[c].tag
       /\ last'.op = "clone" =>
             /\ \E c \in ConnIds :
                   /\ Live(c)
                   /\ c # last'.conn
                   /\ mconns'[last'.conn] = mconns[c]
             /\ mconns'[last'.conn].tag = last'.self]_vars

C7_Witness ==
    /\ last.op = "clone"
    /\ last.self = "Alternate"
    /\ \A c \in ConnIds : Live(c) /\ mconns[c].tag = "Alternate"

\* The constructors that take a display handle from the caller.
HandleConstructors == {"from_raw_display_handle", "from_display_handle"}

\* C13: from_raw_display_handle and from_display_handle call the Default
\* backend's constructor of the same name first, with the handle given; when
\* it returns Ok the result is the Default case and the Alternate backend is
\* not called; when it returns an error the Alternate backend's constructor
\* of the same name is called with the same handle, and its Ok becomes the
\* Alternate case and its error is returned unchanged.
C13_HandleFallback ==
    last.op \in HandleConstructors =>
        /\ Len(trace) >= 1
        /\ trace[1] = Call("Def", last.op, last.arg, trace[1].result)
        /\ trace[1].result.ok =>
              /\ Len(trace) = 1
              /\ last.result = Ok(MultiVal("Connection", "Default", trace[1].result.val))
              /\ mconns[last.conn].tag = "Default"
        /\ ~trace[1].result.ok =>
              /\ Len(trace) = 2
              /\ trace[2] = Call("Alt", last.op, last.arg, trace[2].result)
              /\ trace[2].result.ok =>
                    /\ last.result =
                          Ok(MultiVal("Connection", "Alternate", trace[2].result.val))
                    /\ mconns[last.conn].tag = "Alternate"
              /\ ~trace[2].result.ok =>
                    /\ last.result = Err(trace[2].result.err)
                    /\ last.conn = 0

C13_Witness ==
    /\ last.op = "from_raw_display_handle"
    /\ last.arg = "Wayland"
    /\ Len(trace) = 2
    /\ trace[1].result = BErr("IncompatibleRawDisplayHandle")
    /\ trace[2].result = BErr("Unimplemented")
    /\ last.result = Err("Unimplemented")

\* The methods of a Connection that delegate to the backend held.
Delegating == Producers \cup {"gl_api"}

\* C17: a method of a Connection whose arguments have the Connection's case
\* makes one backend call, to the method of the same name of the backend
\* held; its result is that call's result, an Ok wrapped in the Connection's
\* case (gl_api's GLApi as it is) and an error unchanged; the other backend
\* is not called.
C17_DelegatesToActive ==
    (/\ last.op \in Delegating
     /\ last.op \in {"create_device", "create_device_from_native_device"} =>
            last.arg = last.self) =>
        /\ Len(trace) = 1
        /\ trace[1].backend = BackendOf(last.self)
        /\ trace[1].backend = BackendOf(mconns[last.conn].tag)
        /\ trace[1].op = last.op
        /\ last.result = IF last.op = "gl_api"
                         THEN Ok(MultiVal("GLApi", "None", trace[1].result.val))
                         ELSE MapTag(trace[1].result, last.self)
        /\ \A t \in Tag : t # last.self => CallsTo(BackendOf(t)) = {}

C17_Witness ==
    /\ last.op = "create_software_adapter"
    /\ last.self = "Alternate"
    /\ trace = <<Call("Alt", "create_software_adapter", "None",
                       BErr("Unimplemented"))>>
    /\ last.result = Err("Unimplemented")


\* ======================================================================
\* Backend actions
\* ======================================================================
\* The Connection values alive: every one is an owner of its wrapper's Arc.
RECURSIVE StrongUpTo(_)
StrongUpTo(n) == IF n = 0 THEN 0 ELSE wrappers[n].strong + StrongUpTo(n - 1)

Alive == StrongUpTo(MaxWrappers)

\* The wrappers some Connection value shares.
Shared == {w \in WrapperIds : wrappers[w].strong > 0}

\* The case of Connection<x11, surfaceless> that holds wrapper w.
TagOf(w) == IF wrappers[w].backend = "x11" THEN "Default" ELSE "Alternate"

\* The Connection<x11, surfaceless> holding a Connection of wrapper w.
MultiOf(w) ==
    MultiVal("Connection", TagOf(w),
             BackendVal("Connection", wrappers[w].backend, "None"))

\* A constructor can store a new wrapper and a new Connection.
CanConstruct == FreeWrappers(NativeSt) # {} /\ Alive < MaxHandles

\* The X displays whose pointer a caller can hold: those it opened itself
\* and those a Connection returned by new() gave out.
KnownDisplays ==
    {d \in DisplayIds :
        \/ displays[d].opened_by = "caller"
        \/ displays[d].opened_by = "new" /\ displays[d].owner # 0}

\* What XOpenDisplay(NULL) can return: null, or a display not seen before.
XOpenDisplayResults ==
    {NULL} \cup (IF FreeDisplays = {} THEN {} ELSE {FreshDisplay})

\* The display handles a caller can pass: an Xlib handle with a null or a
\* known display, or a handle of another windowing system.
DisplayHandles ==
    {[kind |-> "Xlib", display |-> d] : d \in {NULL} \cup KnownDisplays}
        \cup {[kind |-> k, display |-> NULL] : k \in HandleKind \ {"Xlib"}}

Commit(st) ==
    /\ x_threads_init' = st.x_threads_init
    /\ displays' = st.displays
    /\ egl_initialized' = st.egl_initialized
    /\ wrappers' = st.wrappers
    /\ xcalls' = st.calls

XOp(name, backend, outcome, err, w) ==
    [op |-> name, backend |-> backend, outcome |-> outcome, err |-> err, w |-> w]

\* A backend constructor given arg ended as o: the Connection, if any, is
\* kept.
ReturnOf(name, backend, arg, o) ==
    /\ Commit(o.st)
    /\ made_by' = IF o.outcome = "ok" THEN [made_by EXCEPT ![o.w] = name] ELSE made_by
    /\ xlast' = XOp(name, backend, o.outcome, o.err, o.w)
    /\ xio' = IO(arg, NoRet)

Return(name, backend, o) ==
    /\ ReturnOf(name, backend, NoArg, o)
    /\ UNCHANGED <<tvars, lvars>>
    /\ UNCHANGED mvars

X11New ==
    /\ CanConstruct
    /\ \E x11_display \in XOpenDisplayResults :
       \E egl_display \in GetPlatformDisplayX11(x11_display) :
       \E ok \in Initialize(egl_display) :
          Return("new", "x11", X11_new(NativeSt, x11_display, egl_display, ok))

GenericNew ==
    /\ CanConstruct
    /\ \E egl_display \in GetPlatformDisplaySurfaceless :
       \E ok \in Initialize(egl_display) :
          Return("new", "generic", Generic_new(NativeSt, egl_display, ok))

\* A backend result as the dispatcher sees it.
ToTrait(o, of) ==
    IF o.outcome = "ok" THEN BOk(BackendVal("Connection", of, "None")) ELSE BErr(o.err)

\* Connection<X11, surfaceless>::new(): Multi_new over the two backends'
\* new(); a panic inside the X11 backend unwinds through the dispatcher.
MultiNativeNew ==
    /\ CanConstruct
    /\ \E x11_display \in XOpenDisplayResults :
       \E x11_egl \in GetPlatformDisplayX11(x11_display) :
       \E x11_ok \in Initialize(x11_egl) :
       \E egl_display \in GetPlatformDisplaySurfaceless :
       \E ok \in Initialize(egl_display) :
          LET d == X11_new(NativeSt, x11_display, x11_egl, x11_ok) IN
          IF d.outcome = "panic"
          THEN Return("new", "multi", d)
          ELSE LET a == Generic_new(d.st, egl_display, ok)
                   m == Multi_new(ToTrait(d, "Def"), ToTrait(a, "Alt"))
                   called == {m.calls[i].backend : i \in 1..Len(m.calls)}
                   after == IF "Alt" \in called THEN a.st ELSE d.st
                   w == IF m.result.val.tag = "Default" THEN d.w ELSE a.w
               IN Return("new", "multi",
                         IF m.result.ok
                         THEN Outcome(after, "ok", "None", w)
                         ELSE Outcome(after, "err", m.result.err, 0))

\* The caller wraps a display it holds the pointer of.
X11FromNativeConnection ==
    /\ CanConstruct
    /\ \E d \in KnownDisplays :
          Return("from_native_connection", "x11",
                 X11_from_native_connection(NativeSt,
                    [egl_display |-> EglOfX11(d), x11_display |-> d]))

\* from_native_connection(c.native_connection()) of an x11 Connection c
\* sharing wrapper w.
X11FromNativeConnectionOf ==
    /\ CanConstruct
    /\ \E w \in Shared :
          /\ wrappers[w].backend = "x11"
          /\ LET n == X11_native_connection(NativeSt, w) IN
                ReturnOf("from_native_connection", "x11",
                         [kind |-> "NativeConnection",
                          display |-> n.value.x11_display,
                          egl_display |-> n.value.egl_display, of |-> w],
                         X11_from_native_connection(n.st, n.value))
          /\ UNCHANGED <<tvars, lvars>>
          /\ UNCHANGED mvars

X11FromRawDisplayHandle ==
    /\ CanConstruct
    /\ \E raw_handle \in DisplayHandles :
       \E egl_display \in GetPlatformDisplayX11(raw_handle.display) :
       \E ok \in Initialize(egl_display) :
          /\ ReturnOf("from_raw_display_handle", "x11", raw_handle,
                      X11_from_raw_display_handle(NativeSt, raw_handle, egl_display, ok))
          /\ UNCHANGED <<tvars, lvars>>
          /\ UNCHANGED mvars

X11FromDisplayHandle ==
    /\ CanConstruct
    /\ \E handle \in DisplayHandles :
       \E egl_display \in GetPlatformDisplayX11(handle.display) :
       \E ok \in Initialize(egl_display) :
          /\ ReturnOf("from_display_handle", "x11", handle,
                      X11_from_display_handle(NativeSt, handle, egl_display, ok))
          /\ UNCHANGED <<tvars, lvars>>
          /\ UNCHANGED mvars

\* clone() of a Connection sharing wrapper w (through the dispatcher's
\* clone() when it is held in one of its cases).
NativeClone ==
    /\ Alive < MaxHandles
    /\ \E w \in Shared :
          /\ Commit(Arc_clone(NativeSt, w))
          /\ xlast' = XOp("clone", wrappers[w].backend, "ok", "None", w)
          /\ xio' = IO(NoArg, NoRet)
          /\ UNCHANGED <<made_by, tvars, lvars, mvars>>

\* Mutant of the guard's lifetime: the guard borrows nothing, so the last
\* Connection can go while a guard is held.
Droppable_GuardNotBorrowing(wrapper, guard) == TRUE

\* DisplayGuard<'a> borrows from the &self lock_display() was called on: a
\* Connection that a guard borrows from cannot go out of scope (the guards
\* of a wrapper may all borrow from the same Connection).
Droppable(wrapper, guard) == wrapper.strong > 1 \/ guard.held = 0

\* clone() of a Connection<x11, surfaceless> holding a Connection of
\* wrapper w: the call Multi_clone makes on the backend held.
MultiNativeClone ==
    /\ Alive < MaxHandles
    /\ \E w \in Shared :
          LET m    == Multi_clone(MultiOf(w))
              call == m.calls[1]
              s1   == Called(NativeSt, call.backend \o "::" \o call.op)
          IN /\ Commit(IF call.op = "clone" THEN Arc_clone(s1, w) ELSE s1)
             /\ xlast' = XOp("clone", "multi", "ok", "None", w)
             /\ xio' = IO(NoArg, m.result)
             /\ UNCHANGED <<made_by, tvars, lvars, mvars>>

\* A Connection sharing wrapper w goes out of scope: one that no
\* DisplayGuard<'a> borrows from.
NativeDrop ==
    \E w \in Shared :
        /\ Droppable(wrappers[w], guards[w])
        /\ Commit(Arc_drop(NativeSt, w))
        /\ xlast' = XOp("drop", wrappers[w].backend, "ok", "None", w)
        /\ xio' = IO(NoArg, NoRet)
        /\ UNCHANGED <<made_by, tvars, lvars, mvars>>

NativeGlApi ==
    \E w \in Shared :
        /\ xlast' = XOp("gl_api", wrappers[w].backend,
                        IF Native_gl_api(wrappers[w]) \in GLApi THEN "ok" ELSE "err",
                        "None", w)
        /\ xio' = IO(NoArg, BOk(BackendVal("GLApi", wrappers[w].backend,
                                            Native_gl_api(wrappers[w]))))
        /\ xcalls' = <<>>
        /\ UNCHANGED <<x_threads_init, displays, egl_initialized, wrappers, made_by>>
        /\ UNCHANGED <<tvars, lvars, mvars>>

NativeCreateAdapter ==
    \E w \in Shared :
        /\ LET r == Native_create_adapter(wrappers[w]) IN
              /\ xlast' = XOp("create_adapter", wrappers[w].backend,
                              IF r.ok THEN "ok" ELSE "err", r.err, w)
              /\ xio' = IO(NoArg, r)
              /\ xcalls' = <<>>
        /\ UNCHANGED <<x_threads_init, displays, egl_initialized, wrappers, made_by>>
        /\ UNCHANGED <<tvars, lvars, mvars>>

\* The caller opens an X display of its own.
CallerOpenDisplay ==
    /\ FreeDisplays # {}
    /\ displays' = [displays EXCEPT ![FreshDisplay] =
                       [state |-> "open", opened_by |-> "caller",
                        closes |-> 0, owner |-> 0]]
    /\ UNCHANGED <<x_threads_init, egl_initialized, wrappers, made_by, xlast, xio, xcalls>>
    /\ UNCHANGED <<tvars, lvars, mvars>>

\* The caller closes an X display of its own.
CallerCloseDisplay ==
    \E d \in DisplayIds :
        /\ displays[d].opened_by = "caller"
        /\ displays[d].state = "open"
        /\ displays' = [displays EXCEPT ![d].state = "closed"]
        /\ UNCHANGED <<x_threads_init, egl_initialized, wrappers, made_by, xlast, xio, xcalls>>
        /\ UNCHANGED <<tvars, lvars, mvars>>

NextX11 ==
    \/ X11New
    \/ GenericNew
    \/ X11FromNativeConnection
    \/ X11FromRawDisplayHandle
    \/ X11FromDisplayHandle
    \/ NativeClone
    \/ NativeDrop
    \/ CallerOpenDisplay
    \/ CallerCloseDisplay

SpecX11 == Init /\ [][NextX11]_vars

\* --------------------------------------------------------- backend: claims
\* C8: for the display opened by a new() that returned a Connection, the
\* library has called XCloseDisplay once if the last Connection sharing the
\* wrapper has been dropped and not at all while one is alive.
C8_OwnedClosedOnce ==
    \A d \in DisplayIds :
        (displays[d].opened_by = "new" /\ displays[d].owner # 0) =>
            LET w == displays[d].owner IN
            /\ made_by[w] = "new"
            /\ wrappers[w].x11_display_is_owned
            /\ displays[d].closes = IF wrappers[w].strong = 0 THEN 1 ELSE 0
            /\ wrappers[w].strong > 0 =>
                  /\ displays[d].state = "open"
                  /\ wrappers[w].x11_display = d

C8_Witness ==
    /\ xlast.op = "drop"
    /\ made_by[xlast.w] = "new"
    /\ wrappers[xlast.w].backend = "x11"
    /\ wrappers[xlast.w].strong = 0
    /\ \E d \in DisplayIds :
          displays[d].owner = xlast.w /\ displays[d].closes = 1

\* The constructors that take the display from the caller.
Borrowing ==
    {"from_native_connection", "from_raw_display_handle", "from_display_handle"}

\* C9: the library never calls XCloseDisplay on a display the caller
\* opened; a wrapper made from a caller's handle is not flagged as owning,
\* and the step that drops it changes no display and nulls its pointer;
\* every XCloseDisplay call is made by dropping the last owner of a wrapper
\* made by new().
C9_BorrowedNeverCloses ==
    /\ [](\A d \in DisplayIds : displays[d].opened_by = "caller" => displays[d].closes = 0)
    /\ [](\A w \in WrapperIds :
            made_by[w] \in Borrowing => ~wrappers[w].x11_display_is_owned)
    /\ [][/\ \A w \in WrapperIds :
               (made_by[w] \in Borrowing /\ wrappers[w].strong > 0
                    /\ wrappers'[w].strong = 0) =>
                  /\ displays' = displays
                  /\ wrappers'[w] = [wrappers[w] EXCEPT !.strong = 0,
                                                        !.x11_display = NULL]
          /\ \A d \in DisplayIds :
               displays'[d].closes # displays[d].closes =>
                  \E w \in WrapperIds :
                     /\ made_by[w] = "new"
                     /\ wrappers[w].x11_display = d
                     /\ wrappers[w].strong = 1
                     /\ wrappers'[w].strong = 0]_vars

C9_Witness ==
    /\ xlast.op = "drop"
    /\ made_by[xlast.w] = "from_native_connection"
    /\ wrappers[xlast.w].strong = 0
    /\ wrappers[xlast.w].x11_display = NULL
    /\ \E d \in DisplayIds :
          /\ displays[d].opened_by = "caller"
          /\ displays[d].state = "closed"
          /\ displays[d].closes = 0

\* The Connection returned with wrapper w is fully initialized: it owns a
\* wrapper whose EGL display eglInitialize succeeded on, whose X display (X11
\* backend) is open, and gl_api() and create_adapter() succeed on it.
FullyInitialized(w) ==
    /\ w \in WrapperIds
    /\ LET wrapper == wrappers[w] IN
          /\ wrapper.strong >= 1
          /\ wrapper.egl_display # NO_DISPLAY
          /\ wrapper.egl_display \in egl_initialized
          /\ wrapper.backend = "x11" =>
                /\ wrapper.x11_display # NULL
                /\ displays[wrapper.x11_display].state = "open"
          /\ Native_gl_api(wrapper) \in GLApi
          /\ Native_create_adapter(wrapper).ok

\* C10 as stated: new() returns a fully initialized Connection or
\* ConnectionFailed.
C10_TwoOutcomes ==
    xlast.op = "new" =>
        \/ xlast.outcome = "ok" /\ FullyInitialized(xlast.w)
        \/ xlast.outcome = "err" /\ xlast.err = "ConnectionFailed"

\* C10 (amended): new() returns a fully initialized Connection, or returns
\* ConnectionFailed, or - in the X11 backend and in the dispatcher over it,
\* never in the surfaceless backend - panics after the X display was
\* opened; gl_api() and create_adapter() succeed on every Connection.
C10_TwoOutcomesOrPanic ==
    /\ xlast.op = "new" =>
          \/ xlast.outcome = "ok" /\ FullyInitialized(xlast.w)
          \/ xlast.outcome = "err" /\ xlast.err = "ConnectionFailed" /\ xlast.w = 0
          \/ /\ xlast.outcome = "panic"
             /\ xlast.backend \in {"x11", "multi"}
             /\ xlast.w = 0
             /\ \E d \in DisplayIds :
                   displays[d].opened_by = "new" /\ displays[d].owner = 0
    /\ xlast.op \in {"gl_api", "create_adapter"} => xlast.outcome = "ok"

C10_Witness ==
    /\ xlast.op = "new"
    /\ xlast.backend = "x11"
    /\ xlast.outcome = "panic"
    /\ \E d \in DisplayIds :
          /\ displays[d].opened_by = "new"
          /\ displays[d].owner = 0
          /\ displays[d].state = "open"

\* ======================================================================
\* Threads inside x11 Connection::new()
\* ======================================================================
At(t, pc) == tpc[t].pc = pc

Goto(t, pc, x11_display) ==
    tpc' = [tpc EXCEPT ![t] = [pc |-> pc, x11_display |-> x11_display]]

\* Thread t calls Connection::new().
ThreadCallNew(t) ==
    /\ At(t, "idle")
    /\ ncalls < MaxCalls
    /\ ncalls' = ncalls + 1
    /\ Goto(t, "deref", NULL)
    /\ UNCHANGED <<x_threads_init, displays, egl_initialized, wrappers, made_by,
                   xlast, xio, xcalls, once_running>>
    /\ UNCHANGED <<lvars, mvars>>

\* *X_THREADS_INIT: the first thread to find the Once incomplete runs the
\* initializer; a thread that finds it running waits; one that finds it
\* complete goes on.
ThreadDeref(t) ==
    /\ At(t, "deref")
    /\ LET state == Once_state(x_threads_init, once_running) IN
          /\ state # "running"
          /\ IF state = "incomplete"
             THEN once_running' = TRUE /\ Goto(t, "init", NULL)
             ELSE once_running' = once_running /\ Goto(t, "open", NULL)
    /\ UNCHANGED <<x_threads_init, displays, egl_initialized, wrappers, made_by,
                   xlast, xio, xcalls, ncalls>>
    /\ UNCHANGED <<lvars, mvars>>

\* The initializer: XInitThreads(), then the Once is complete.
ThreadXInitThreads(t) ==
    /\ At(t, "init")
    /\ x_threads_init' = x_threads_init + 1
    /\ once_running' = FALSE
    /\ Goto(t, "open", NULL)
    /\ UNCHANGED <<displays, egl_initialized, wrappers, made_by, xlast, xio, xcalls, ncalls>>
    /\ UNCHANGED <<lvars, mvars>>

\* XOpenDisplay(ptr::null()); a null display returns Err(ConnectionFailed).
ThreadXOpenDisplay(t) ==
    /\ At(t, "open")
    /\ \E x11_display \in XOpenDisplayResults :
          IF x11_display = NULL
          THEN /\ Goto(t, "idle", NULL)
               /\ xlast' = XOp("new", "x11", "err", "ConnectionFailed", 0)
               /\ xio' = IO(NoArg, NoRet)
               /\ xcalls' = <<"XOpenDisplay -> NULL">>
               /\ UNCHANGED displays
          ELSE /\ Goto(t, "egl", x11_display)
               /\ displays' = XOpenDisplay(NativeSt, x11_display, "new").displays
               /\ UNCHANGED <<xlast, xio, xcalls>>
    /\ UNCHANGED <<x_threads_init, egl_initialized, wrappers, made_by,
                   once_running, ncalls>>
    /\ UNCHANGED <<lvars, mvars>>

\* create_egl_display(x11_display) and Ok(Connection { .. }); a panic
\* unwinds out of new().
ThreadCreateEglDisplay(t) ==
    /\ At(t, "egl")
    /\ FreeWrappers(NativeSt) # {}
    /\ \E egl_display \in GetPlatformDisplayX11(tpc[t].x11_display) :
       \E ok \in Initialize(egl_display) :
          ReturnOf("new", "x11", NoArg,
                   X11_new_opened(NativeSt, tpc[t].x11_display, egl_display, ok))
    /\ Goto(t, "idle", NULL)
    /\ UNCHANGED <<once_running, ncalls>>
    /\ UNCHANGED <<lvars, mvars>>

NextThreads ==
    \/ \E t \in ThreadIds : ThreadCallNew(t)
    \/ \E t \in ThreadIds : ThreadDeref(t)
    \/ \E t \in ThreadIds : ThreadXInitThreads(t)
    \/ \E t \in ThreadIds : ThreadXOpenDisplay(t)
    \/ \E t \in ThreadIds : ThreadCreateEglDisplay(t)
    \/ CallerOpenDisplay
    \/ X11FromNativeConnection
    \/ X11FromRawDisplayHandle
    \/ X11FromDisplayHandle

SpecThreads == Init /\ [][NextThreads]_vars

\* C11: XInitThreads() has run at most once, a step never lowers the number
\* of times it has run, and once a call of new() has got past
\* *X_THREADS_INIT or has returned - whatever the number of calls and of
\* threads making them - it has run exactly once.
C11_InitOnce ==
    /\ [](x_threads_init <= 1)
    /\ [][x_threads_init' >= x_threads_init]_vars
    /\ [](\A t \in ThreadIds :
            tpc[t].pc \in {"open", "egl"} => x_threads_init = 1)
    /\ []((ncalls >= 1 /\ \A t \in ThreadIds : At(t, "idle")) =>
            x_threads_init = 1 /\ ~once_running)

C11_Witness ==
    /\ ncalls >= 2
    /\ \A t \in ThreadIds : At(t, "idle")
    /\ x_threads_init = 1
    /\ \E w \in WrapperIds : made_by[w] = "new"

\* The X11 constructors.
X11Constructors == {"new"} \cup Borrowing

\* C19 as stated: when an X11 constructor returns a Connection,
\* XInitThreads() has run, and it has run before new() opens a display.
C19_InitOnEveryPath ==
    /\ (/\ xlast.op \in X11Constructors
        /\ xlast.backend = "x11"
        /\ xlast.outcome = "ok") => x_threads_init >= 1
    /\ \A d \in DisplayIds : displays[d].opened_by = "new" => x_threads_init >= 1

\* C19 (amended): when new() returns, and already when it calls
\* XOpenDisplay, XInitThreads() has run; from_native_connection,
\* from_raw_display_handle and from_display_handle leave the number of times
\* it has run as they found it.
C19_InitOnNewOnly ==
    /\ []((xlast.op = "new" /\ xlast.backend = "x11") => x_threads_init = 1)
    /\ [](\A t \in ThreadIds : At(t, "open") \/ At(t, "egl") => x_threads_init = 1)
    /\ [][\A d \in DisplayIds :
            (displays[d] = NoDisplay /\ displays'[d].opened_by = "new") =>
                x_threads_init = 1]_vars
    /\ [][(xlast' # xlast /\ xlast'.op \in Borrowing) =>
                x_threads_init' = x_threads_init]_vars

C19_Witness ==
    /\ xlast.op = "from_native_connection"
    /\ xlast.outcome = "ok"
    /\ wrappers[xlast.w].strong = 1
    /\ x_threads_init = 0

\* C18: a display opened by new() that no Connection with an owning wrapper
\* holds has been closed once by the library, and one that such a Connection
\* holds has not been closed.
C18_OpenedDisplayReleased ==
    \A d \in DisplayIds :
        displays[d].opened_by = "new" =>
            LET owners == {w \in Shared : /\ wrappers[w].x11_display = d
                                          /\ wrappers[w].x11_display_is_owned}
            IN displays[d].closes = IF owners = {} THEN 1 ELSE 0

\* C20: an X11 wrapper is flagged as owning its display exactly when new()
\* made it, and a step changes neither the flag nor the constructor of a
\* wrapper that exists.
C20_OwnershipFlag ==
    /\ [](\A w \in WrapperIds :
            wrappers[w].backend = "x11" =>
                /\ made_by[w] \in X11Constructors
                /\ wrappers[w].x11_display_is_owned <=> made_by[w] = "new")
    /\ [][\A w \in WrapperIds :
            wrappers[w] # NoWrapper =>
                /\ wrappers'[w].x11_display_is_owned = wrappers[w].x11_display_is_owned
                /\ made_by'[w] = made_by[w]]_vars

C20_Witness ==
    \E w, v \in WrapperIds :
        /\ made_by[w] = "new"
        /\ wrappers[w].backend = "x11"
        /\ wrappers[w].x11_display_is_owned
        /\ made_by[v] = "from_raw_display_handle"
        /\ ~wrappers[v].x11_display_is_owned
        /\ wrappers[v].strong = 0
        /\ xlast.op = "drop"

\* ======================================================================
\* The display lock
\* ======================================================================
\* How the operation a DisplayGuard brackets can end: it returns Ok, it
\* returns early with an error, it panics.
ExitPaths == {"ok", "err", "panic"}

CommitLock(ls) ==
    /\ guards' = ls.guards
    /\ locks' = ls.locks
    /\ unlocks' = ls.unlocks

\* Code holding a Connection of wrapper w calls lock_display().
LockDisplay ==
    \E w \in Shared :
        /\ wrappers[w].backend = "x11"
        /\ wrappers[w].x11_display # NULL
        /\ locks[wrappers[w].x11_display] < MaxLocks
        /\ CommitLock(lock_display(LockSt, w, wrappers[w].x11_display))
        /\ xlast' = XOp("lock_display", "x11", "ok", "None", w)
        /\ xio' = IO(NoArg, NoRet)
        /\ xcalls' = <<"XLockDisplay">>
        /\ UNCHANGED <<x_threads_init, displays, egl_initialized, wrappers, made_by>>
        /\ UNCHANGED <<tvars, mvars>>

\* The scope of a DisplayGuard of wrapper w ends, on any path.
GuardScopeExit ==
    \E w \in WrapperIds, path \in ExitPaths :
        /\ guards[w].held > 0
        /\ CommitLock(DisplayGuard_drop(LockSt, w))
        /\ xlast' = XOp("guard_drop", "x11", path, "None", w)
        /\ xio' = IO(NoArg, NoRet)
        /\ xcalls' = <<"XUnlockDisplay">>
        /\ UNCHANGED <<x_threads_init, displays, egl_initialized, wrappers, made_by>>
        /\ UNCHANGED <<tvars, mvars>>

NextLock ==
    \/ X11New
    \/ X11FromNativeConnection
    \/ X11FromNativeConnectionOf
    \/ X11FromRawDisplayHandle
    \/ X11FromDisplayHandle
    \/ NativeClone
    \/ NativeDrop
    \/ LockDisplay
    \/ GuardScopeExit

SpecLock == Init /\ [][NextLock]_vars

\* The DisplayGuards of the wrappers 1..n that hold display d.
RECURSIVE HeldOn(_, _)
HeldOn(d, n) ==
    IF n = 0 THEN 0
    ELSE (IF guards[n].display = d THEN guards[n].held ELSE 0) + HeldOn(d, n - 1)

\* C12: on every display the XUnlockDisplay calls never exceed the
\* XLockDisplay calls and the difference is the number of DisplayGuards in
\* scope; the step that makes a guard calls XLockDisplay once on its display
\* and does not unlock, the step that ends a guard's scope - on any path -
\* calls XUnlockDisplay once on its display and does not lock, and no other
\* step locks or unlocks.
C12_LockUnlockOnce ==
    /\ [](\A d \in DisplayIds :
            /\ unlocks[d] <= locks[d]
            /\ locks[d] - unlocks[d] = HeldOn(d, MaxWrappers))
    /\ [][\A w \in WrapperIds :
            /\ guards'[w].held > guards[w].held =>
                  /\ guards'[w].held = guards[w].held + 1
                  /\ guards'[w].display = wrappers[w].x11_display
                  /\ locks' = [locks EXCEPT ![guards'[w].display] = @ + 1]
                  /\ unlocks' = unlocks
            /\ guards'[w].held < guards[w].held =>
                  /\ guards'[w].held = guards[w].held - 1
                  /\ unlocks' = [unlocks EXCEPT ![guards[w].display] = @ + 1]
                  /\ locks' = locks
                  /\ xlast'.outcome \in ExitPaths]_vars
    /\ [][guards' = guards => (locks' = locks /\ unlocks' = unlocks)]_vars

C12_Witness ==
    /\ xlast.op = "guard_drop"
    /\ xlast.outcome = "err"
    /\ \A w \in WrapperIds : guards[w] = NoGuards
    /\ \E d \in DisplayIds : locks[d] >= 2 /\ unlocks[d] = locks[d]

\* ======================================================================
\* Handles and adapters
\* ======================================================================
\* The window ids a caller's window handle can carry.
Windows == {"window_1", "window_2"}

\* The rwh window handles a caller can pass.
WindowHandles == {[kind |-> k, window |-> x] : k \in HandleKind, x \in Windows}

\* A method of a Connection of wrapper w, called with arg on the backend
\* ("x11", "generic") or through the dispatcher ("multi"), returned ret.
Query(name, via, w, arg, ret) ==
    /\ w \in Shared
    /\ xlast' = XOp(name, via, IF ret.ok THEN "ok" ELSE "err", ret.err, w)
    /\ xio' = IO(arg, ret)
    /\ xcalls' = <<>>
    /\ UNCHANGED <<x_threads_init, displays, egl_initialized, wrappers, made_by>>
    /\ UNCHANGED <<tvars, lvars, mvars>>

GenericFromRawDisplayHandle ==
    \E raw_handle \in DisplayHandles :
        /\ ReturnOf("from_raw_display_handle", "generic", raw_handle,
                    Generic_from_raw_display_handle(NativeSt, raw_handle))
        /\ UNCHANGED <<tvars, lvars, mvars>>

GenericFromDisplayHandle ==
    \E handle \in DisplayHandles :
        /\ ReturnOf("from_display_handle", "generic", handle,
                    Generic_from_display_handle(NativeSt, handle))
        /\ UNCHANGED <<tvars, lvars, mvars>>

\* create_native_widget_from_raw_window_handle of the backend of wrapper w.
Native_create_native_widget_from_raw_window_handle(w, raw_handle) ==
    IF wrappers[w].backend = "x11"
    THEN X11_create_native_widget_from_raw_window_handle(wrappers[w], raw_handle)
    ELSE Generic_create_native_widget_from_raw_window_handle(wrappers[w], raw_handle)

\* create_native_widget_from_window_handle of the backend of wrapper w.
Native_create_native_widget_from_window_handle(w, handle) ==
    IF wrappers[w].backend = "x11"
    THEN X11_create_native_widget_from_window_handle(wrappers[w], handle)
    ELSE Generic_create_native_widget_from_window_handle(wrappers[w], handle)

NativeCreateNativeWidgetFromRawWindowHandle ==
    \E w \in Shared, raw_handle \in WindowHandles :
        Query("create_native_widget_from_raw_window_handle", wrappers[w].backend,
              w, raw_handle,
              Native_create_native_widget_from_raw_window_handle(w, raw_handle))

NativeCreateNativeWidgetFromWindowHandle ==
    \E w \in Shared, handle \in WindowHandles :
        Query("create_native_widget_from_window_handle", wrappers[w].backend,
              w, handle, Native_create_native_widget_from_window_handle(w, handle))

MultiNativeCreateNativeWidgetFromRawWindowHandle ==
    \E w \in Shared, raw_handle \in WindowHandles :
        Query("create_native_widget_from_raw_window_handle", "multi", w, raw_handle,
              Multi_create_native_widget_from_raw_window_handle(MultiOf(w), raw_handle,
                  Native_create_native_widget_from_raw_window_handle(w, raw_handle)).result)

MultiNativeCreateNativeWidgetFromWindowHandle ==
    \E w \in Shared, handle \in WindowHandles :
        Query("create_native_widget_from_window_handle", "multi", w, handle,
              Multi_create_native_widget_from_window_handle(MultiOf(w), handle,
                  Native_create_native_widget_from_window_handle(w, handle)).result)

NativeCreateHardwareAdapter ==
    \E w \in Shared :
        Query("create_hardware_adapter", wrappers[w].backend, w, NoArg,
              Native_create_hardware_adapter(wrappers[w]))

MultiNativeCreateAdapter ==
    \E w \in Shared :
        Query("create_adapter", "multi", w, NoArg,
              Multi_create_adapter(MultiOf(w), Native_create_adapter(wrappers[w])).result)

MultiNativeCreateHardwareAdapter ==
    \E w \in Shared :
        Query("create_hardware_adapter", "multi", w, NoArg,
              Multi_create_hardware_adapter(MultiOf(w),
                  Native_create_hardware_adapter(wrappers[w])).result)

NextOps ==
    \/ X11New
    \/ GenericNew
    \/ MultiNativeNew
    \/ CallerOpenDisplay
    \/ X11FromRawDisplayHandle
    \/ X11FromDisplayHandle
    \/ GenericFromRawDisplayHandle
    \/ GenericFromDisplayHandle
    \/ NativeCreateNativeWidgetFromRawWindowHandle
    \/ NativeCreateNativeWidgetFromWindowHandle
    \/ MultiNativeCreateNativeWidgetFromRawWindowHandle
    \/ MultiNativeCreateNativeWidgetFromWindowHandle
    \/ NativeGlApi
    \/ NativeCreateAdapter
    \/ NativeCreateHardwareAdapter
    \/ MultiNativeCreateAdapter
    \/ MultiNativeCreateHardwareAdapter

SpecOps == Init /\ [][NextOps]_vars

\* C14: a handle-exchange constructor of the X11 backend given an Xcb handle
\* fails with Unimplemented, and one of any backend given a handle of a
\* windowing system that is not the backend's (on the surfaceless backend:
\* every handle) fails with IncompatibleRawDisplayHandle.
C14_MismatchedHandleError ==
    (xlast.op \in HandleConstructors /\ xlast.backend \in {"x11", "generic"}) =>
        /\ (xlast.backend = "x11" /\ xio.arg.kind = "Xcb") =>
              xlast.outcome = "err" /\ xlast.err = "Unimplemented"
        /\ (xlast.backend = "generic" \/ xio.arg.kind \notin {"Xlib", "Xcb"}) =>
              xlast.outcome = "err" /\ xlast.err = "IncompatibleRawDisplayHandle"

\* The constructors of a native widget from a typed window handle.
WidgetConstructors ==
    {"create_native_widget_from_raw_window_handle",
     "create_native_widget_from_window_handle"}

\* C15: a native widget constructor given a typed window handle returns
\* Ok exactly when the Connection's backend - through the dispatcher: the
\* backend of the case it holds - is X11 and the handle is an Xlib handle,
\* and the widget then has the handle's window; in every other case it
\* returns IncompatibleNativeWidget and no value.
C15_IncompatibleWidget ==
    xlast.op \in WidgetConstructors =>
        LET active == wrappers[xlast.w].backend
            handle == xio.arg
        IN /\ (active = "x11" /\ handle.kind = "Xlib") =>
                 /\ xio.ret.ok
                 /\ IF xlast.backend = "multi"
                    THEN /\ xio.ret.val.tag = "Default"
                         /\ xio.ret.val.inner.class = handle.window
                    ELSE xio.ret.val.class = handle.window
           /\ ~(active = "x11" /\ handle.kind = "Xlib") =>
                 /\ xlast.outcome = "err"
                 /\ xio.ret = IF xlast.backend = "multi"
                              THEN Err("IncompatibleNativeWidget")
                              ELSE BErr("IncompatibleNativeWidget")

C15_Witness ==
    /\ xlast.op = "create_native_widget_from_window_handle"
    /\ xlast.backend = "multi"
    /\ wrappers[xlast.w].backend = "generic"
    /\ xio.arg.kind = "Xlib"
    /\ xio.ret = Err("IncompatibleNativeWidget")

\* C16: create_adapter() and create_hardware_adapter() called one after
\* the other, in either order, on the same Connection - of a backend or of
\* the dispatcher - return the same result, and create_adapter() returns
\* the hardware adapter of the Connection's backend, in the Connection's
\* case through the dispatcher.
C16_CreateAdapterAlias ==
    /\ [][(/\ {xlast.op, xlast'.op} = {"create_adapter", "create_hardware_adapter"}
           /\ xlast'.backend = xlast.backend
           /\ xlast'.w = xlast.w) => xio'.ret = xio.ret]_vars
    /\ [](xlast.op = "create_adapter" =>
            LET adapter == BackendVal("Adapter", wrappers[xlast.w].backend, "hardware")
            IN xio.ret = IF xlast.backend = "multi"
                         THEN Ok(MultiVal("Adapter", TagOf(xlast.w), adapter))
                         ELSE BOk(adapter))

C16_Witness ==
    /\ xlast.op = "create_adapter"
    /\ xlast.backend = "multi"
    /\ wrappers[xlast.w].backend = "generic"
    /\ xio.ret.ok
    /\ xio.ret.val.tag = "Alternate"
    /\ xio.ret.val.inner.class = "hardware"

\* ------------------------------------------------ claims about native calls
\* The operation xlast describes called the Xlib or EGL function name.
InCalls(name) == \E i \in 1..Len(xcalls) : xcalls[i] = name

EglCalls ==
    {"GetPlatformDisplay", "GetPlatformDisplay -> NO_DISPLAY",
     "Initialize", "Initialize -> FALSE"}

\* xlast is a new() of the backend whose native display was not acquired.
NoDisplayAcquired ==
    /\ xlast.op = "new"
    /\ \/ xlast.backend = "x11" /\ InCalls("XOpenDisplay -> NULL")
       \/ xlast.backend = "generic" /\ InCalls("GetPlatformDisplay -> NO_DISPLAY")

\* C21: when the native display cannot be acquired, new() returns
\* ConnectionFailed at once: the x11 new() after a null XOpenDisplay makes no
\* wrapper, no EGL call and no close call, and the surfaceless new() after
\* NO_DISPLAY does not call Initialize.
C21_NoDisplayGoesToError ==
    /\ [](NoDisplayAcquired =>
            /\ xlast.outcome = "err"
            /\ xlast.err = "ConnectionFailed"
            /\ xlast.w = 0
            /\ xcalls[Len(xcalls)] \in {"XOpenDisplay -> NULL",
                                        "GetPlatformDisplay -> NO_DISPLAY"}
            /\ \A i \in 1..Len(xcalls) :
                  /\ xcalls[i] # "XCloseDisplay"
                  /\ xcalls[i] \notin {"Initialize", "Initialize -> FALSE"}
                  /\ xlast.backend = "x11" => xcalls[i] \notin EglCalls)
    /\ [][(NoDisplayAcquired' /\ <<xlast, xcalls>>' # <<xlast, xcalls>>) =>
            /\ wrappers' = wrappers
            /\ made_by' = made_by
            /\ displays' = displays
            /\ egl_initialized' = egl_initialized]_vars

\* An x11 new() has failed on a null display while another Connection is
\* alive and XInitThreads has run.
C21_Witness ==
    /\ NoDisplayAcquired
    /\ xlast.backend = "x11"
    /\ x_threads_init = 1
    /\ Shared # {}

\* xlast is from_native_connection(c.native_connection()).
RoundTrip == xlast.op = "from_native_connection" /\ xio.arg.kind = "NativeConnection"

\* C22: native_connection() round-trips: from_native_connection of the
\* native_connection() of an x11 Connection c succeeds with a new wrapper
\* that holds c's X display and EGL display, does not own the display, and
\* is made without any Xlib or EGL call.
C22_NativeConnectionRoundTrip ==
    RoundTrip =>
        /\ xlast.outcome = "ok"
        /\ xlast.w \in Shared \ {xio.arg.of}
        /\ xio.arg.of \in Shared
        /\ wrappers[xlast.w].backend = "x11"
        /\ wrappers[xlast.w].x11_display = wrappers[xio.arg.of].x11_display
        /\ wrappers[xlast.w].egl_display = wrappers[xio.arg.of].egl_display
        /\ wrappers[xlast.w].x11_display_is_owned = FALSE
        /\ xcalls = <<>>

\* The Connection made by new(), owning an open display, was round-tripped.
C22_Witness ==
    /\ RoundTrip
    /\ wrappers[xio.arg.of].x11_display_is_owned
    /\ wrappers[xio.arg.of].x11_display # NULL
    /\ wrappers[xio.arg.of].egl_display # NO_DISPLAY
    /\ displays[wrappers[xlast.w].x11_display].state = "open"

\* The wrappers of the live x11 Connections that hold a display.
LiveX11 ==
    {w \in Shared : wrappers[w].backend = "x11" /\ wrappers[w].x11_display # NULL}

\* C23 as stated: no live x11 Connection, owning or not, holds a display
\* the library has called XCloseDisplay on.
C23_NoLiveConnectionOnClosedDisplay ==
    \A w \in LiveX11 : displays[wrappers[w].x11_display].closes = 0

\* C23, amended: a live x11 Connection that owns its display holds an open
\* display the library has not closed; a live Connection that does not own
\* its display holds one the library has closed only if every Connection
\* sharing the wrapper that owned it has been dropped, and that display was
\* closed once.
C23_OwningConnectionOnOpenDisplay ==
    \A w \in LiveX11 :
        LET d == wrappers[w].x11_display IN
        IF wrappers[w].x11_display_is_owned
        THEN displays[d].closes = 0 /\ displays[d].state = "open"
        ELSE displays[d].closes > 0 =>
                /\ displays[d].closes = 1
                /\ displays[d].owner \in WrapperIds \ Shared
                /\ wrappers[displays[d].owner].x11_display_is_owned

\* A Connection made by from_native_connection() from the display of the
\* one new() returned is alive just after the drop of the owner closed the
\* display.
C23_Witness ==
    \E w \in LiveX11 :
        /\ ~wrappers[w].x11_display_is_owned
        /\ made_by[w] = "from_native_connection"
        /\ displays[wrappers[w].x11_display].closes = 1
        /\ xlast.op = "drop"
        /\ displays[wrappers[w].x11_display].owner = xlast.w

\* C24: while a DisplayGuard of a wrapper is held, a Connection shares the
\* wrapper, the wrapper holds the guard's display and, if it owns it, has
\* not closed it; the step that ends a guard unlocks a display its wrapper
\* has not closed, and the step in which an owning wrapper closes its
\* display finds no guard of that wrapper held.
C24_GuardWithinWrapper ==
    /\ [](\A w \in WrapperIds :
            guards[w].held > 0 =>
               /\ w \in Shared
               /\ wrappers[w].x11_display = guards[w].display
               /\ wrappers[w].x11_display_is_owned =>
                     /\ displays[guards[w].display].closes = 0
                     /\ displays[guards[w].display].state = "open")
    /\ [][\A w \in WrapperIds :
            /\ guards'[w].held < guards[w].held =>
                  /\ w \in Shared
                  /\ wrappers[w].x11_display_is_owned =>
                        displays[guards[w].display].closes = 0
            /\ (/\ wrappers[w].strong > 0
                /\ wrappers'[w].strong = 0
                /\ wrappers[w].x11_display_is_owned) =>
                  /\ guards[w].held = 0
                  /\ displays'[wrappers[w].x11_display].closes = 1]_vars

\* One of two Connections sharing an owning wrapper was dropped while a
\* guard borrowed from the other is held.
C24_Witness ==
    /\ xlast.op = "drop"
    /\ guards[xlast.w].held > 0
    /\ wrappers[xlast.w].x11_display_is_owned
    /\ wrappers[xlast.w].strong = 1

\* ======================================================================
\* Queries and factories
\* ======================================================================
\* native_connection() of a Connection of wrapper w; the surfaceless value
\* is one more owner of the wrapper.
NativeNativeConnection ==
    \E w \in Shared :
        /\ wrappers[w].backend = "generic" => Alive < MaxHandles
        /\ LET n == IF wrappers[w].backend = "x11"
                    THEN X11_native_connection(NativeSt, w)
                    ELSE Generic_native_connection(NativeSt, w)
           IN /\ Commit(n.st)
              /\ xlast' = XOp("native_connection", wrappers[w].backend, "ok", "None", w)
              /\ xio' = IO(NoArg, BOk(BackendVal("NativeConnection",
                                                 wrappers[w].backend, n.value)))
        /\ UNCHANGED <<made_by, tvars, lvars, mvars>>

NativeCreateLowPowerAdapter ==
    \E w \in Shared :
        Query("create_low_power_adapter", wrappers[w].backend, w, NoArg,
              Native_create_low_power_adapter(wrappers[w]))

NativeCreateSoftwareAdapter ==
    \E w \in Shared :
        Query("create_software_adapter", wrappers[w].backend, w, NoArg,
              Native_create_software_adapter(wrappers[w]))

NativeCreateNativeWidgetFromPtr ==
    \E w \in Shared, raw \in Windows :
        Query("create_native_widget_from_ptr", wrappers[w].backend, w,
              [kind |-> "ptr", window |-> raw],
              Native_create_native_widget_from_ptr(wrappers[w], raw))

NextQueries ==
    \/ X11New
    \/ GenericNew
    \/ X11FromNativeConnectionOf
    \/ NativeClone
    \/ MultiNativeClone
    \/ NativeDrop
    \/ NativeNativeConnection
    \/ NativeGlApi
    \/ NativeCreateAdapter
    \/ NativeCreateHardwareAdapter
    \/ NativeCreateLowPowerAdapter
    \/ NativeCreateSoftwareAdapter
    \/ NativeCreateNativeWidgetFromPtr
    \/ NativeCreateNativeWidgetFromRawWindowHandle
    \/ NativeCreateNativeWidgetFromWindowHandle

SpecQueries == Init /\ [][NextQueries]_vars

\* The query and factory operations of a Connection.
Queries ==
    {"native_connection", "gl_api", "create_adapter", "create_hardware_adapter",
     "create_low_power_adapter", "create_software_adapter",
     "create_native_widget_from_ptr",
     "create_native_widget_from_raw_window_handle",
     "create_native_widget_from_window_handle"}

\* C25: a query or factory operation of an x11 Connection changes no
\* wrapper - not its X display, EGL display, ownership flag or number of
\* owners - and no display, and makes no Xlib or EGL call.
C25_QueriesLeaveWrapper ==
    [][(xlast'.op \in Queries /\ xlast'.backend = "x11") =>
          /\ wrappers' = wrappers
          /\ made_by' = made_by
          /\ displays' = displays
          /\ egl_initialized' = egl_initialized
          /\ x_threads_init' = x_threads_init
          /\ xcalls' = <<>>]_vars

\* native_connection() was called on one of two Connections sharing the
\* wrapper that owns an open display.
C25_Witness ==
    /\ xlast.op = "native_connection"
    /\ xlast.backend = "x11"
    /\ wrappers[xlast.w].strong = 2
    /\ wrappers[xlast.w].x11_display_is_owned
    /\ displays[wrappers[xlast.w].x11_display].state = "open"
    /\ xio.ret.val.class.x11_display = wrappers[xlast.w].x11_display

\* C26: clone() of the dispatcher calls clone() of the backend held and
\* nothing else - no new(), no Xlib or EGL call - keeps the case, and adds
\* one owner to the wrapper shared, making no wrapper and changing no
\* display; a display owned by an x11 wrapper is not closed while a
\* Connection shares the wrapper, and is closed once by the step that drops
\* the last of them.
C26_CloneSharesWrapper ==
    /\ [][(/\ xlast'.op = "clone"
           /\ xlast'.backend = "multi"
           /\ <<wrappers, xlast, xcalls>>' # <<wrappers, xlast, xcalls>>) =>
             LET w == xlast'.w IN
             /\ xio'.ret.ok
             /\ xio'.ret.val.tag = TagOf(w)
             /\ xcalls' = <<BackendOf(TagOf(w)) \o "::clone">>
             /\ wrappers' = [wrappers EXCEPT ![w].strong = @ + 1]
             /\ made_by' = made_by
             /\ displays' = displays
             /\ egl_initialized' = egl_initialized]_vars
    /\ [](\A w \in Shared :
            (wrappers[w].backend = "x11" /\ wrappers[w].x11_display_is_owned) =>
               displays[wrappers[w].x11_display].closes = 0)
    /\ [][\A d \in DisplayIds :
            displays'[d].closes # displays[d].closes =>
               /\ displays'[d].closes = 1
               /\ xlast'.op = "drop"
               /\ wrappers[xlast'.w].x11_display = d
               /\ wrappers[xlast'.w].x11_display_is_owned
               /\ wrappers[xlast'.w].strong = 1
               /\ wrappers'[xlast'.w].strong = 0]_vars

\* The dispatcher Connection holding the x11 Connection new() returned was
\* cloned: two Connections share the wrapper that owns the open display.
C26_Witness ==
    /\ xlast.op = "clone"
    /\ xlast.backend = "multi"
    /\ xio.ret.val.tag = "Default"
    /\ wrappers[xlast.w].x11_display_is_owned
    /\ wrappers[xlast.w].strong = 2
    /\ displays[wrappers[xlast.w].x11_display].state = "open"


====
